---- MODULE Spec2Model ----
(***************************************************************************)
(* github-branch-deleter.user.js: the two userscript bodies of the file   *)
(* (v1.1, confirm-dialog flow, lines 12-160; v0.2.1, immediate flow,      *)
(* lines 177-390) running against one host document.                      *)
(*                                                                         *)
(* The host page is an uncontrolled environment: it shows and hides the   *)
(* two landmarks, removes the injected control, detaches and re-renders   *)
(* branch rows, and opens confirmation dialogs.  JavaScript is            *)
(* run-to-completion: a handler holds the thread from its start to its    *)
(* next await, and a blocking alert()/confirm() holds it too, so every    *)
(* host step and every timer is guarded by ~Busy.                         *)
(***************************************************************************)
EXTENDS Integers, Sequences, FiniteSets, TLC

\* ---------------------------------------------------------------- bounds
MaxRows == 3        \* branch rows (positions) of the listing
MaxRenders == 1     \* re-renders of the branch table per page load
MaxFindButtons == 3 \* buttons of a dialog in the findConfirmButton check
MaxInjectCalls == 3 \* injector calls in succession

Rows == 1..MaxRows
\* Invocations of handleDeleteAllClick that can be in progress together.
Runs == { 1, 2 }
SoloRuns == { 1 }

\* ------------------------------------------------------------ config
deleteDelayV11 == 1500      \* config.deleteDelay (v1.1), ms
deleteDelayV021 == 200      \* config.deleteDelay (v0.2.1), ms
dialogRenderDelay == 500    \* v1.1's sleep(500) before the lookup, ms

\* config.confirmButtonSelectors (v1.1), in declared order.
confirmButtonSelectors ==
    << "labelledSubmitDanger", "formSubmitDanger", "variantDanger" >>

Selectors == { confirmButtonSelectors[k] : k \in 1..Len(confirmButtonSelectors) }

\* A dialog button is the set of confirmation selectors it matches; a dialog
\* is its buttons in document order.
ButtonKinds == SUBSET Selectors

RECURSIVE SeqsUpTo(_, _)
SeqsUpTo(S, n) ==
    IF n = 0 THEN { <<>> }
    ELSE LET shorter == SeqsUpTo(S, n - 1)
         IN  shorter \cup { Append(s, x) : s \in shorter, x \in S }

\* What the host renders after a trigger click during a run: no dialog, a
\* dialog with a button that is no confirmation button, or a dialog with a
\* confirmation button in one of the three markups.
DialogStates == { <<>>, << {} >> } \cup { << { s } >> : s \in Selectors }
FindDialogStates == SeqsUpTo(ButtonKinds, MaxFindButtons)

VARIABLES
    page,        \* "live" | "reloaded" (location.reload() ends this page load)
    structAnchor,\* an element matches config.buttonContainerSelector (v1.1)
    h1Anchor,    \* an h1 whose trimmed text is 'Branches' is in the document
    controls,    \* elements with id 'batch-delete-branches-btn', each the
                 \* script version whose listener it carries
    initTimer,   \* v0.2.1's setTimeout(injectDeleteAllButton, 500) is pending
    rowAtt,      \* rowAtt[p]: a row element is attached at position p
    tableGen,    \* which rendering of the table the attached rows belong to
    rowDel,      \* rowDel[p]: the row exposes a delete trigger (not protected)
    dialog,      \* the open confirmation dialog's buttons (<<>>: none)
    dialogClose, \* a dialog close control is present
    run,         \* run[r]: one invocation of handleDeleteAllClick
    reloads,     \* location.reload() calls issued
    lookup       \* what the last findConfirmButton call returned: the
                 \* button's place in the dialog, 0 for null, -1: no call yet

vars == << page, structAnchor, h1Anchor, controls, initTimer, rowAtt, tableGen,
           rowDel, dialog, dialogClose, run, reloads, lookup >>

docVars == << structAnchor, h1Anchor, controls, initTimer >>
rowVars == << rowAtt, tableGen, rowDel >>
dlgVars == << dialog, dialogClose, lookup >>

\* ------------------------------------------------------------ helpers
\* document.querySelector(selector) over the dialog: the first button in
\* document order that matches, 0 for null.
RECURSIVE querySelectorFrom(_, _, _)
querySelectorFrom(dlg, selector, k) ==
    IF k > Len(dlg) THEN 0
    ELSE IF selector \in dlg[k] THEN k
    ELSE querySelectorFrom(dlg, selector, k + 1)

querySelector(dlg, selector) == querySelectorFrom(dlg, selector, 1)

RECURSIVE findConfirmLoop(_, _)
findConfirmLoop(dlg, s) ==
    IF s > Len(confirmButtonSelectors) THEN 0
    ELSE LET button == querySelector(dlg, confirmButtonSelectors[s])
         IN  IF button # 0 THEN button ELSE findConfirmLoop(dlg, s + 1)

\* Mutant: the selectors are tried last to first.
RECURSIVE findConfirmLoopReversed(_, _)
findConfirmLoopReversed(dlg, s) ==
    IF s < 1 THEN 0
    ELSE LET button == querySelector(dlg, confirmButtonSelectors[s])
         IN  IF button # 0 THEN button ELSE findConfirmLoopReversed(dlg, s - 1)

findConfirmButtonReversed(dlg) ==
    findConfirmLoopReversed(dlg, Len(confirmButtonSelectors))

findConfirmButton(dlg) == findConfirmLoop(dlg, 1)

\* --------------------------------------------------- control injection
\* The container each injector looks up: v1.1 the element matching
\* config.buttonContainerSelector, v0.2.1 the parent of the first h1 whose
\* trimmed text is 'Branches'.
containerV11(st) == IF st THEN "headerRegion" ELSE "notFound"
containerV021(h) == IF h THEN "h1Parent" ELSE "notFound"

\* Where a control is: in the container its injector appended it to.
containerOf(o) == IF o = "v1.1" THEN "headerRegion" ELSE "h1Parent"

\* injectDeleteAllButton (v1.1): c is the controls in the document, st
\* whether config.buttonContainerSelector matches.
injectDeleteAllButtonV11(c, st) ==
    IF containerV11(st) # "notFound" /\ Len(c) = 0 THEN Append(c, "v1.1")
    ELSE c

\* Mutant: the presence check before creation is missing.
injectNoPresenceCheckV021(c, h) ==
    IF ~h THEN c ELSE Append(c, "v0.2.1")

\* injectDeleteAllButton (v0.2.1): h is whether an h1 'Branches' exists.
injectDeleteAllButtonV021(c, h) ==
    IF containerV021(h) = "notFound" THEN c    \* warn, return
    ELSE IF Len(c) > 0 THEN c          \* getElementById(...) found one
    ELSE Append(c, "v0.2.1")

\* MutationObserver callback (v1.1).  muts is the batch, one BOOLEAN per
\* record: mutation.addedNodes.length > 0.
RECURSIVE observerV11(_, _, _)
observerV11(muts, c, st) ==
    IF muts = <<>> THEN c
    ELSE observerV11(Tail(muts),
                     IF Head(muts) /\ st
                     THEN injectDeleteAllButtonV11(c, st) ELSE c,
                     st)

\* MutationObserver callback (v0.2.1): returns after the first injection.
RECURSIVE observerV021(_, _, _)
observerV021(muts, c, h) ==
    IF muts = <<>> THEN c
    ELSE IF Head(muts) /\ h /\ Len(c) = 0
         THEN injectDeleteAllButtonV021(c, h)
         ELSE observerV021(Tail(muts), c, h)

\* A batch of host mutations is delivered to both observers, in the order
\* the observers were created (v1.1's script body runs first).
Deliver(muts, c, st, h) == observerV021(muts, observerV11(muts, c, st), h)

\* ------------------------------------------------------------- rows
\* Mutant: document.body.contains(row) is not consulted.
AttachedUnchecked(hd) == TRUE

\* A row handle is the element <<position, rendering>>.
Attached(hd) == rowAtt[hd[1]] /\ tableGen = hd[2]

\* handleDeleteAllClick's scan: the delete buttons of the attached rows, in
\* document order, rows without a delete button filtered out.
RECURSIVE scanFrom(_)
scanFrom(p) ==
    IF p > MaxRows THEN <<>>
    ELSE (IF rowAtt[p] /\ rowDel[p] THEN << <<p, tableGen>> >> ELSE <<>>)
         \o scanFrom(p + 1)

deleteButtons == scanFrom(1)

\* ------------------------------------------------------------- runs
IdleRun ==
    [ pc |-> "idle", ver |-> "none", job |-> <<>>, i |-> 0,
      deletedCount |-> 0, errorCount |-> 0, skippedCount |-> 0,
      delays |-> 0,      \* settle delays elapsed
      waited |-> 0,      \* ms spent in sleep(...)
      prompt |-> 0,      \* the count the confirm(...) text states
      answer |-> "none", \* what the user answered to confirm(...)
      \* what the environment did to this run's rows so far
      clicks |-> 0,      \* trigger clicks issued
      target |-> <<>>,   \* the row whose trigger was clicked last
      detached |-> 0,    \* rows found detached at their turn
      threw |-> 0,       \* clicks (trigger, confirm) that threw
      absent |-> 0,      \* findConfirmButton() calls that returned null
      last |-> "none" ]  \* what happened at the row resolved last

\* The thread is held: a handler is between two awaits, or a blocking
\* alert()/confirm() is open.
Holding(r) == run[r].pc \in { "emptyAlert", "confirm", "loop", "summary" }
Busy == \E r \in Runs : Holding(r)

\* No invocation r is in progress: none started, or the last one returned.
Ended(r) == run[r].pc \in { "idle", "returned", "cancelled" }

Suspended(r) == run[r].pc \in { "dialogWait", "settle" }

Init ==
    /\ page = "live"
    /\ structAnchor \in BOOLEAN
    /\ h1Anchor \in BOOLEAN
       \* v1.1 calls injectDeleteAllButton() while its script body runs
    /\ controls = injectDeleteAllButtonV11(<<>>, structAnchor)
    /\ initTimer = TRUE
    /\ rowAtt = [p \in Rows |-> TRUE]
    /\ tableGen = 1
    /\ rowDel \in [Rows -> BOOLEAN]
    /\ dialog = <<>>
    /\ dialogClose = FALSE
    /\ run = [r \in Runs |-> IdleRun]
    /\ reloads = 0
    /\ lookup = -1

\* ------------------------------------------------------- host page steps
Live == page = "live" /\ ~Busy

\* The host renders or removes the header region v1.1 anchors on.  Removing
\* it removes the control v1.1 appended to it.
HostShowStruct ==
    /\ Live /\ ~structAnchor
    /\ structAnchor' = TRUE
    /\ controls' = Deliver(<<TRUE>>, controls, TRUE, h1Anchor)
    /\ UNCHANGED << page, h1Anchor, initTimer, rowVars, dlgVars, run, reloads >>

HostHideStruct ==
    /\ Live /\ structAnchor
    /\ structAnchor' = FALSE
    /\ controls' = SelectSeq(controls, LAMBDA o : o # "v1.1")
    /\ UNCHANGED << page, h1Anchor, initTimer, rowVars, dlgVars, run, reloads >>

\* The host renders or removes the h1 'Branches' and its parent, which holds
\* the control v0.2.1 appended.
HostShowH1 ==
    /\ Live /\ ~h1Anchor
    /\ h1Anchor' = TRUE
    /\ controls' = Deliver(<<TRUE>>, controls, structAnchor, TRUE)
    /\ UNCHANGED << page, structAnchor, initTimer, rowVars, dlgVars, run, reloads >>

HostHideH1 ==
    /\ Live /\ h1Anchor
    /\ h1Anchor' = FALSE
    /\ controls' = SelectSeq(controls, LAMBDA o : o # "v0.2.1")
    /\ UNCHANGED << page, structAnchor, initTimer, rowVars, dlgVars, run, reloads >>

\* The host removes the control alone: a batch that records removed nodes only.
HostRemoveControl ==
    /\ Live /\ Len(controls) > 0
    /\ controls' = Deliver(<<FALSE>>, Tail(controls), structAnchor, h1Anchor)
    /\ UNCHANGED << page, structAnchor, h1Anchor, initTimer, rowVars, dlgVars,
                    run, reloads >>

\* The host removes a row (for instance once its branch is deleted).
HostRemoveRow(p) ==
    /\ Live /\ rowAtt[p]
    /\ rowAtt' = [rowAtt EXCEPT ![p] = FALSE]
    /\ controls' = Deliver(<<FALSE>>, controls, structAnchor, h1Anchor)
    /\ UNCHANGED << page, structAnchor, h1Anchor, initTimer, tableGen, rowDel,
                    dlgVars, run, reloads >>

\* The host re-renders the branch table: every row element is replaced by a
\* fresh one, and rows may be added where none was attached.
HostRenderTable ==
    /\ Live /\ tableGen <= MaxRenders
    /\ tableGen' = tableGen + 1
    /\ rowAtt' \in { a \in [Rows -> BOOLEAN] : \A p \in Rows : rowAtt[p] => a[p] }
    /\ rowAtt' # [p \in Rows |-> FALSE]
    /\ controls' = Deliver(<<FALSE, TRUE>>, controls, structAnchor, h1Anchor)
    /\ UNCHANGED << page, structAnchor, h1Anchor, initTimer, rowDel, dlgVars,
                    run, reloads >>

\* v0.2.1: setTimeout(injectDeleteAllButton, 500) fires.
InitialInjectTimer ==
    /\ Live /\ initTimer
    /\ initTimer' = FALSE
    /\ controls' = injectDeleteAllButtonV021(controls, h1Anchor)
    /\ UNCHANGED << page, structAnchor, h1Anchor, rowVars, dlgVars, run, reloads >>

\* ------------------------------------------- handleDeleteAllClick: pieces
\* Each operator is one branch of the handler, as an update of its locals.

\* Mutant: the empty-job guard is missing; the prompt is shown for 0 rows.
startRunNoEmptyGuard(ver, job) ==
    [IdleRun EXCEPT !.pc = "confirm", !.ver = ver, !.job = job,
                    !.prompt = Len(job)]

\* The scan and the empty-job guard, common to both versions.
startRun(ver, job) ==
    IF Len(job) = 0
    THEN [IdleRun EXCEPT !.pc = "emptyAlert", !.ver = ver]
    ELSE [IdleRun EXCEPT !.pc = "confirm", !.ver = ver, !.job = job,
                         !.prompt = Len(job)]

\* Mutant: the result of confirm(...) is ignored; the loop is always entered.
afterConfirmIgnoresAnswer(rec, yes) ==
    [rec EXCEPT !.pc = "loop", !.answer = IF yes THEN "yes" ELSE "no"]

\* confirm(...) returned: false returns from the handler, true enters the loop
\* with the counters at 0.
afterConfirm(rec, yes) ==
    IF yes THEN [rec EXCEPT !.pc = "loop", !.answer = "yes"]
    ELSE [rec EXCEPT !.pc = "cancelled", !.answer = "no"]

\* v0.2.1, row not in document.body: skippedCount++; continue.
skipRowV021(rec) ==
    [rec EXCEPT !.skippedCount = @ + 1, !.i = @ + 1,
                !.detached = @ + 1, !.last = "detached"]

\* Mutant: no try/catch around btn.click(); the exception ends the handler.
catchMissingV021(rec) ==
    [rec EXCEPT !.clicks = @ + 1, !.target = rec.job[rec.i + 1],
                !.threw = @ + 1, !.last = "threw", !.pc = "returned"]

\* v0.2.1, btn.click() threw: catch, errorCount++.
catchV021(rec) ==
    [rec EXCEPT !.errorCount = @ + 1, !.i = @ + 1, !.clicks = @ + 1,
                !.target = rec.job[rec.i + 1],
                !.threw = @ + 1, !.last = "threw"]

\* Mutant: a returned click is not counted.
clickedUncountedV021(rec) ==
    LET counted == [rec EXCEPT !.clicks = @ + 1,
                               !.target = rec.job[rec.i + 1], !.last = "ok"]
    IN  IF rec.i < Len(rec.job) - 1
        THEN [counted EXCEPT !.pc = "settle"]
        ELSE [counted EXCEPT !.i = @ + 1]

\* Mutant: the settle delay follows the last row too.
clickedAlwaysSettlesV021(rec) ==
    [rec EXCEPT !.deletedCount = @ + 1, !.clicks = @ + 1,
                !.target = rec.job[rec.i + 1], !.last = "ok",
                !.pc = "settle"]

\* v0.2.1, btn.click() returned: deletedCount++, then the settle delay unless
\* this was the last row.
clickedV021(rec) ==
    LET counted == [rec EXCEPT !.deletedCount = @ + 1, !.clicks = @ + 1,
                               !.target = rec.job[rec.i + 1], !.last = "ok"]
    IN  IF rec.i < Len(rec.job) - 1
        THEN [counted EXCEPT !.pc = "settle"]
        ELSE [counted EXCEPT !.i = @ + 1]

\* Mutant: the rows are scanned again after every settle delay.
afterSettleRescans(rec) ==
    [rec EXCEPT !.delays = @ + 1, !.i = @ + 1, !.pc = "loop",
                !.job = deleteButtons,
                !.waited = @ + (IF rec.ver = "v1.1" THEN deleteDelayV11
                                ELSE deleteDelayV021)]

\* await sleep(config.deleteDelay) resolved: next iteration.
afterSettle(rec) ==
    [rec EXCEPT !.delays = @ + 1, !.i = @ + 1, !.pc = "loop",
                !.waited = @ + (IF rec.ver = "v1.1" THEN deleteDelayV11
                                ELSE deleteDelayV021)]

\* v1.1, row not in document.body: continue (no counter).
skipRowV11(rec) ==
    [rec EXCEPT !.i = @ + 1, !.detached = @ + 1, !.last = "detached"]

\* v1.1, btn.click() or confirmButton.click() threw: catch, errorCount++.
catchV11(rec) ==
    [rec EXCEPT !.errorCount = @ + 1, !.i = @ + 1, !.pc = "loop",
                !.threw = @ + 1, !.last = "threw"]

\* v1.1, btn.click() returned: await sleep(500).
clickedV11(rec) ==
    [rec EXCEPT !.clicks = @ + 1, !.target = rec.job[rec.i + 1],
                !.pc = "dialogWait"]

\* v1.1, confirmButton.click() returned: deletedCount++, await
\* sleep(config.deleteDelay).
confirmedV11(rec) ==
    [rec EXCEPT !.deletedCount = @ + 1, !.pc = "settle", !.last = "ok"]

\* Mutant: the else branch of if (confirmButton) counts nothing.
noConfirmUncountedV11(rec) ==
    [rec EXCEPT !.i = @ + 1, !.pc = "loop", !.absent = @ + 1,
                !.last = "noConfirm"]

\* v1.1, no confirmation button: errorCount++; the close button, if any, is
\* clicked and that click returns.
noConfirmV11(rec) ==
    [rec EXCEPT !.errorCount = @ + 1, !.i = @ + 1, !.pc = "loop",
                !.absent = @ + 1, !.last = "noConfirm"]

\* v1.1, no confirmation button and closeButton.click() threw: the else
\* branch has done errorCount++ and the catch of the same try does it again.
closeThrewV11(rec) ==
    [noConfirmV11(rec) EXCEPT !.errorCount = @ + 1, !.threw = @ + 1,
                              !.last = "threw"]

\* ------------------------------------------- handleDeleteAllClick: steps
\* A click on the control: the listener of the version that injected it
\* runs up to its first blocking dialog.  r is the next unused invocation.
ControlClick(r) ==
    /\ Live /\ Ended(r)
    /\ \A q \in Runs : q < r => ~Ended(q)
    /\ \E k \in 1..Len(controls) :
           run' = [run EXCEPT ![r] = startRun(controls[k], deleteButtons)]
    /\ UNCHANGED << page, docVars, rowVars, dlgVars, reloads >>

\* The user dismisses alert('No deletable branches found on this page.').
DismissEmptyAlert(r) ==
    /\ page = "live" /\ run[r].pc = "emptyAlert"
    /\ run' = [run EXCEPT ![r].pc = "returned"]
    /\ UNCHANGED << page, docVars, rowVars, dlgVars, reloads >>

\* The user answers the confirm(...) prompt.
AnswerConfirm(r) ==
    /\ page = "live" /\ run[r].pc = "confirm"
    /\ \E yes \in BOOLEAN : run' = [run EXCEPT ![r] = afterConfirm(@, yes)]
    /\ UNCHANGED << page, docVars, rowVars, dlgVars, reloads >>

\* v0.2.1: one iteration of the loop, up to its await or its end.
ProcessRowV021(r) ==
    /\ page = "live" /\ run[r].pc = "loop" /\ run[r].ver = "v0.2.1"
    /\ run[r].i < Len(run[r].job)
    /\ IF ~Attached(run[r].job[run[r].i + 1])
       THEN run' = [run EXCEPT ![r] = skipRowV021(@)]
       ELSE \E threw \in BOOLEAN :
                run' = [run EXCEPT ![r] = IF threw THEN catchV021(@)
                                          ELSE clickedV021(@)]
    /\ UNCHANGED << page, docVars, rowVars, dlgVars, reloads >>

\* v1.1: one iteration of the loop up to await sleep(500).
ProcessRowV11(r) ==
    /\ page = "live" /\ run[r].pc = "loop" /\ run[r].ver = "v1.1"
    /\ run[r].i < Len(run[r].job)
    /\ IF ~Attached(run[r].job[run[r].i + 1])
       THEN run' = [run EXCEPT ![r] = skipRowV11(@)]
       ELSE \E threw \in BOOLEAN :
                run' = [run EXCEPT ![r] =
                           IF threw
                           THEN [catchV11(@) EXCEPT
                                    !.clicks = @ + 1,
                                    !.target = run[r].job[run[r].i + 1]]
                           ELSE clickedV11(@)]
    /\ UNCHANGED << page, docVars, rowVars, dlgVars, reloads >>

\* v1.1: sleep(500) resolved.  During the wait the host rendered its dialog
\* (dlg, close: added nodes, seen by the observers); the confirmation button
\* is now looked up and clicked, or failing that the close button.  A click
\* on either (threw: whether the one clicked throws) that returns closes the
\* dialog.
DialogTimerV11(r) ==
    /\ Live /\ run[r].pc = "dialogWait"
    /\ \E dlg \in DialogStates, close \in BOOLEAN, threw \in BOOLEAN :
        LET confirmButton == findConfirmButton(dlg)
            closes == (confirmButton # 0 \/ close) /\ ~threw
        IN  /\ lookup' = confirmButton
            /\ confirmButton = 0 /\ ~close => ~threw    \* nothing is clicked
            /\ run' = [run EXCEPT ![r] =
                          LET rec == [@ EXCEPT !.waited = @ + dialogRenderDelay]
                          IN  IF confirmButton = 0
                              THEN IF threw THEN closeThrewV11(rec)
                                   ELSE noConfirmV11(rec)
                              ELSE IF threw THEN catchV11(rec)
                              ELSE confirmedV11(rec)]
            /\ dialog' = IF closes THEN <<>> ELSE dlg
            /\ dialogClose' = IF closes THEN FALSE ELSE close
    /\ controls' = Deliver(<<TRUE>>, controls, structAnchor, h1Anchor)
    /\ UNCHANGED << page, structAnchor, h1Anchor, initTimer, rowVars, reloads >>

\* sleep(config.deleteDelay) resolved (both versions).
SettleTimer(r) ==
    /\ Live /\ run[r].pc = "settle"
    /\ run' = [run EXCEPT ![r] = afterSettle(@)]
    /\ UNCHANGED << page, docVars, rowVars, dlgVars, reloads >>

\* The loop is over: alert(...) with the counters.
ShowSummary(r) ==
    /\ page = "live" /\ run[r].pc = "loop"
    /\ run[r].i = Len(run[r].job)
    /\ run' = [run EXCEPT ![r].pc = "summary"]
    /\ UNCHANGED << page, docVars, rowVars, dlgVars, reloads >>

\* Mutant: the handler returns after the summary without location.reload().
DismissSummaryNoReload(r) ==
    /\ page = "live" /\ run[r].pc = "summary"
    /\ run' = [run EXCEPT ![r].pc = "returned"]
    /\ UNCHANGED << page, docVars, rowVars, dlgVars, reloads >>

\* The user dismisses the summary; location.reload() ends the page load.
DismissSummary(r) ==
    /\ page = "live" /\ run[r].pc = "summary"
    /\ run' = [run EXCEPT ![r].pc = "done"]
    /\ reloads' = reloads + 1
    /\ page' = "reloaded"
    /\ UNCHANGED << docVars, rowVars, dlgVars >>

Host ==
    \/ HostShowStruct \/ HostHideStruct \/ HostShowH1 \/ HostHideH1
    \/ HostRemoveControl
    \/ \E p \in Rows : HostRemoveRow(p)
    \/ HostRenderTable

Handler(r) ==
    \/ ControlClick(r) \/ DismissEmptyAlert(r) \/ AnswerConfirm(r)
    \/ ProcessRowV021(r) \/ ProcessRowV11(r) \/ DialogTimerV11(r)
    \/ SettleTimer(r) \/ ShowSummary(r) \/ DismissSummary(r)

HostRows ==
    \/ \E p \in Rows : HostRemoveRow(p)
    \/ HostRenderTable

Next == Host \/ InitialInjectTimer \/ \E r \in Runs : Handler(r)

\* The whole page: both script bodies and the host.
Spec == Init /\ [][Next]_vars

\* The control and its injectors alone: no activation.
NextInject == Host \/ InitialInjectTimer
SpecInject == Init /\ [][NextInject]_vars

\* The activations alone, on a page that shows the 'Branches' heading, as the
\* two initial injections leave it: the control is v1.1's when the header
\* region v1.1 looks for is there and v0.2.1's when not, and the header and
\* the control then stay as they are.
InitRun ==
    /\ page = "live"
    /\ structAnchor \in BOOLEAN
    /\ h1Anchor = TRUE
    /\ controls = injectDeleteAllButtonV021(
                      injectDeleteAllButtonV11(<<>>, structAnchor), h1Anchor)
    /\ initTimer = FALSE
    /\ rowAtt = [p \in Rows |-> TRUE]
    /\ tableGen = 1
    /\ rowDel \in [Rows -> BOOLEAN]
    /\ dialog = <<>>
    /\ dialogClose = FALSE
    /\ run = [r \in Runs |-> IdleRun]
    /\ reloads = 0
    /\ lookup = -1

NextRun == HostRows \/ \E r \in SoloRuns : Handler(r)
SpecRun == InitRun /\ [][NextRun]_vars

\* The same, with the scheduling the browser guarantees: a handler that holds
\* the thread runs on, a timer that was set fires, and the user eventually
\* dismisses the summary alert.
RunStep(r) ==
    \/ ProcessRowV021(r) \/ ProcessRowV11(r) \/ DialogTimerV11(r)
    \/ SettleTimer(r) \/ ShowSummary(r) \/ DismissSummary(r)

SpecRunFair == SpecRun /\ \A r \in SoloRuns : WF_vars(RunStep(r))

\* Re-entrant activations of v0.2.1's control: a click while an earlier
\* invocation of the handler is suspended in a settle delay.
InitReentrant == InitRun /\ ~structAnchor

HandlerV021(r) ==
    \/ ControlClick(r) \/ DismissEmptyAlert(r) \/ AnswerConfirm(r)
    \/ ProcessRowV021(r) \/ SettleTimer(r) \/ ShowSummary(r)
    \/ DismissSummary(r)

NextReentrant == HostRows \/ \E r \in Runs : HandlerV021(r)
SpecReentrant == InitReentrant /\ [][NextReentrant]_vars

\* findConfirmButton alone, on every dialog of up to MaxFindButtons buttons.
InitFind == InitRun /\ structAnchor /\ rowDel = [p \in Rows |-> TRUE]

CallFindConfirmButton ==
    /\ lookup = -1
    /\ lookup' = findConfirmButton(dialog)
    /\ UNCHANGED << page, docVars, rowVars, dialog, dialogClose, run, reloads >>

HostOpenDialog ==
    /\ lookup = -1 /\ dialog = <<>>
    /\ dialog' \in FindDialogStates \ { <<>> }
    /\ UNCHANGED << page, docVars, rowVars, dialogClose, run, reloads, lookup >>

NextFind == HostOpenDialog \/ CallFindConfirmButton
SpecFind == InitFind /\ [][NextFind]_vars

\* ===================================================================
\* Claims
\* ===================================================================
AtSummary(r) == run[r].pc = "summary"
JobSize(r) == Len(run[r].job)
Tally(r) == << run[r].deletedCount, run[r].errorCount, run[r].skippedCount >>

\* C1: when a confirmed run reaches its summary alert, deletedCount +
\* errorCount + skippedCount equals the number n of rows of the job, in
\* both flows and whatever rows detached, triggers threw or confirmation
\* controls were absent.
C1_TallySumsToJobSize ==
    \A r \in Runs :
        AtSummary(r) =>
            run[r].deletedCount + run[r].errorCount + run[r].skippedCount
                = JobSize(r)

\* C2: a row found detached at its turn is counted as skipped, never as error
\* or deleted: the skipped counter is the number of rows found detached, and
\* a run in which exactly one row detached and nothing else failed ends with
\* the tally {deleted: n-1, error: 0, skipped: 1}.
C2_DetachedRowIsSkipped ==
    \A r \in Runs :
        /\ run[r].skippedCount = run[r].detached
        /\ (AtSummary(r) /\ run[r].detached = 1 /\ run[r].threw = 0
            /\ run[r].clicks = JobSize(r) - 1 /\ run[r].errorCount = 0)
               => Tally(r) = << JobSize(r) - 1, 0, 1 >>

\* C3: a failure raised by the trigger click or the confirmation click at
\* row i increments errorCount once, for that row only, leaves the other
\* counters alone and moves the loop on to
\* row i+1; the summary is reached only after every row of the job has had
\* its turn (its trigger clicked, or the row found detached).
C3_StepContainsFailure ==
    \A r \in Runs :
        (run'[r].threw > run[r].threw /\ run'[r].absent = run[r].absent) =>
            /\ run'[r].threw = run[r].threw + 1
            /\ run'[r].errorCount = run[r].errorCount + 1
            /\ run'[r].deletedCount = run[r].deletedCount
            /\ run'[r].skippedCount = run[r].skippedCount
            /\ run'[r].i = run[r].i + 1
            /\ run'[r].pc = "loop"
            /\ run'[r].job = run[r].job

C3_SummaryAfterEveryRow ==
    \A r \in Runs :
        AtSummary(r) =>
            /\ run[r].i = JobSize(r)
            /\ run[r].clicks + run[r].detached = JobSize(r)

C3_FailureContained ==
    [][C3_StepContainsFailure /\ C3_SummaryAfterEveryRow']_vars

\* A run whose first row failed and whose last row was deleted.
C3_Witness ==
    \E r \in Runs :
        /\ AtSummary(r) /\ JobSize(r) = 3
        /\ run[r].threw = 1 /\ run[r].errorCount = 1
        /\ run[r].deletedCount = 2 /\ run[r].last = "ok"

\* C4: triggers are strictly serial over all activations of the control: no
\* invocation clicks a row's trigger while a row of another invocation has
\* been started and has not resolved with its settle delay elapsed.
C4_StepIsSerial ==
    \A r \in Runs :
        run'[r].clicks > run[r].clicks =>
            \A q \in Runs \ { r } : ~Suspended(q)

C4_TriggersSerial == [][C4_StepIsSerial]_vars

\* C5: in a v0.2.1 run over n rows a settle delay elapses after every row
\* but the last, whatever the row's outcome: n-1 delays of deleteDelay by the
\* time of the summary.
C5_DelayAfterEveryRow ==
    \A r \in Runs :
        (AtSummary(r) /\ run[r].ver = "v0.2.1") =>
            /\ run[r].delays = JobSize(r) - 1
            /\ run[r].waited = (JobSize(r) - 1) * deleteDelayV021

\* Rows of the run counted deleted whose settle delay is not (or not yet)
\* taken: the row being settled, and the last row of the job.
UnsettledV021(r) ==
    (IF run[r].pc = "settle" THEN 1 ELSE 0)
    + (IF run[r].i = JobSize(r) /\ run[r].last = "ok" THEN 1 ELSE 0)

\* C5 (amended): in a v0.2.1 run a settle delay of deleteDelay elapses after
\* row i < n-1 exactly when that row's trigger click returned and the row
\* was counted deleted; a skipped or errored row is followed by the next row
\* at once.  The delays elapsed are the deleted rows other than the last row
\* of the job, at most n-1.
C5_StepDelaysOnlyAfterDeleted ==
    \A r \in Runs :
        (run[r].ver = "v0.2.1" /\ run[r].pc = "loop") =>
            /\ run'[r].pc = "settle" <=>
                   /\ run'[r].deletedCount = run[r].deletedCount + 1
                   /\ run[r].i < JobSize(r) - 1
            /\ (run'[r].errorCount > run[r].errorCount
                \/ run'[r].skippedCount > run[r].skippedCount)
                   => run'[r].pc = "loop" /\ run'[r].i = run[r].i + 1

C5_DelaysFollowDeletedRows ==
    \A r \in Runs :
        (run[r].ver = "v0.2.1" /\ run[r].answer = "yes") =>
            /\ run[r].delays = run[r].deletedCount - UnsettledV021(r)
            /\ run[r].waited = run[r].delays * deleteDelayV021
            /\ run[r].delays <= JobSize(r) - 1

C5_DelayAfterDeletedRow ==
    [][C5_StepDelaysOnlyAfterDeleted /\ C5_DelaysFollowDeletedRows']_vars

\* A v0.2.1 run of 3 rows with one failed and one skipped row: one delay.
C5_Witness ==
    \E r \in Runs :
        /\ AtSummary(r) /\ run[r].ver = "v0.2.1" /\ JobSize(r) = 3
        /\ Tally(r) = << 1, 1, 1 >>
        /\ run[r].delays = 1

\* k calls of an injector in succession.
RECURSIVE injectTimesV11(_, _, _)
injectTimesV11(k, c, st) ==
    IF k = 0 THEN c ELSE injectTimesV11(k - 1, injectDeleteAllButtonV11(c, st), st)

RECURSIVE injectTimesV021(_, _, _)
injectTimesV021(k, c, h) ==
    IF k = 0 THEN c
    ELSE injectTimesV021(k - 1, injectDeleteAllButtonV021(c, h), h)

\* C6: at most one element with the id 'batch-delete-branches-btn' is in the
\* document, however the injector calls of the initial load, the timer and
\* the observers interleave with the host's re-renders; and k calls of an
\* injector with its anchor present leave exactly one control.
C6_SingleControl ==
    /\ Len(controls) <= 1
    /\ \A k \in 1..MaxInjectCalls :
           /\ Len(injectTimesV021(k, controls, TRUE)) = 1
           /\ Len(injectTimesV11(k, controls, TRUE)) = 1

\* v0.2.1's timer has called the injector with its anchor present while the
\* control v1.1 injected was in the document.
C6_Witness ==
    /\ controls = << "v1.1" >> /\ h1Anchor /\ structAnchor /\ ~initTimer

\* C7: when the scan yields no row with a delete trigger the handler shows
\* 'No deletable branches found' and returns: no confirmation prompt, no
\* trigger click, no counter change, no reload; and the message is shown only
\* then.
C7_StepEmptyJobStops ==
    \A r \in Runs :
        /\ (Ended(r) /\ ~Ended(r)') =>
               /\ deleteButtons = <<>> <=> run'[r].pc = "emptyAlert"
               /\ reloads' = reloads /\ page' = page
        /\ run[r].pc = "emptyAlert" =>
               /\ deleteButtons = <<>>
               /\ run'[r] = run[r] \/ run'[r] = [run[r] EXCEPT !.pc = "returned"]
               /\ reloads' = reloads /\ page' = page

C7_EmptyJobState ==
    \A r \in Runs :
        run[r].pc \in { "emptyAlert", "returned" } =>
            /\ run[r].job = <<>>
            /\ run[r].prompt = 0 /\ run[r].answer = "none"
            /\ run[r].clicks = 0
            /\ Tally(r) = << 0, 0, 0 >>

C7_EmptyJobStops == [][C7_StepEmptyJobStops /\ C7_EmptyJobState']_vars

\* The handler returned after the message although rows are attached.
C7_Witness ==
    \E r \in Runs :
        /\ run[r].pc = "returned"
        /\ \E p \in Rows : rowAtt[p] /\ ~rowDel[p]

\* C8: no trigger is clicked before the user answered yes to the prompt of
\* that activation; the prompt states the exact job size; after a no the
\* handler has ended with no trigger clicked, no summary and no reload.
C8_StepPromptGates ==
    \A r \in Runs :
        /\ run'[r].clicks > run[r].clicks => run[r].answer = "yes"
        /\ run[r].pc = "confirm" =>
               /\ run'[r].pc \in { "confirm", "loop", "cancelled" }
               /\ reloads' = reloads /\ page' = page
        /\ (run[r].pc = "confirm" /\ run'[r].pc = "loop")
               => run'[r].answer = "yes"
        /\ run'[r].answer = "no" => run'[r].pc = "cancelled"
        /\ run[r].pc = "cancelled" =>
               run'[r] = run[r] \/ (run'[r].pc # "summary" /\ run'[r].clicks = 0)

C8_PromptState ==
    \A r \in Runs :
        /\ run[r].pc = "confirm" =>
               /\ run[r].prompt = Len(deleteButtons)
               /\ run[r].prompt = JobSize(r) /\ JobSize(r) >= 1
        /\ run[r].pc \in { "confirm", "cancelled" } =>
               run[r].clicks = 0 /\ Tally(r) = << 0, 0, 0 >>
        /\ run[r].clicks > 0 => run[r].answer = "yes"
        /\ run[r].pc \in { "summary", "done" } => run[r].answer = "yes"

C8_ConfirmationGate == [][C8_StepPromptGates /\ C8_PromptState']_vars

\* The user declined a prompt for 3 rows.
C8_Witness ==
    \E r \in Runs :
        run[r].pc = "cancelled" /\ run[r].prompt = 3 /\ run[r].answer = "no"

\* C9: every confirmed run terminates: the summary is shown after all n rows
\* are resolved and only then, and it is followed by one page reload,
\* whatever the mix of outcomes.
C9_StepSummaryThenReload ==
    /\ \A r \in Runs :
           /\ (~AtSummary(r) /\ AtSummary(r)') =>
                  /\ run[r].pc = "loop" /\ run[r].i = JobSize(r)
                  /\ run'[r] = [run[r] EXCEPT !.pc = "summary"]
           /\ AtSummary(r) =>
                  \/ run'[r] = run[r]
                  \/ run'[r].pc = "done" /\ reloads' = reloads + 1
    /\ reloads' # reloads =>
           /\ \E r \in Runs : AtSummary(r) /\ run'[r].pc = "done"
           /\ reloads' = 1 /\ page' = "reloaded"

C9_SummaryState ==
    /\ reloads <= 1
    /\ page = "reloaded" <=> reloads = 1
    /\ \A r \in Runs :
           run[r].pc \in { "summary", "done" } =>
               /\ run[r].i = JobSize(r)
               /\ run[r].clicks + run[r].detached = JobSize(r)

Matching(dlg) ==
    { s \in 1..Len(confirmButtonSelectors) :
          \E k \in 1..Len(dlg) : confirmButtonSelectors[s] \in dlg[k] }

Least(S) == CHOOSE x \in S : \A y \in S : x <= y

FirstMatchOf(dlg, s) ==
    Least({ k \in 1..Len(dlg) : confirmButtonSelectors[s] \in dlg[k] })

\* C10: findConfirmButton returns the match of the lowest-index selector
\* that matches, and null exactly when no selector matches.
C10_FirstMatcherWins ==
    lookup # -1 =>
        /\ lookup = 0 <=> Matching(dialog) = {}
        /\ Matching(dialog) # {} =>
               lookup = FirstMatchOf(dialog, Least(Matching(dialog)))

\* Selector 1 matches nothing, selector 2 matches the second button and
\* selector 3 the first: the second button is returned.
C10_Witness ==
    /\ lookup = 2
    /\ dialog = << { "variantDanger" }, { "formSubmitDanger" } >>


\* C11: in v1.1, when findConfirmButton finds no confirmation button after a
\* row's trigger click, the row is counted in errorCount and not in
\* deletedCount, a close button of the dialog, if there is one, is clicked
\* (no close button is left unless that click threw), and the loop goes on
\* with the next row; a run of 3 rows in which one lookup found nothing and
\* nothing else failed ends with the tally {deleted: 2, error: 1, skipped: 0}.
C11_StepNoConfirmIsError ==
    \A r \in Runs :
        (run[r].pc = "dialogWait" /\ run'[r] # run[r] /\ lookup' = 0) =>
            /\ run'[r].errorCount > run[r].errorCount
            /\ run'[r].deletedCount = run[r].deletedCount
            /\ run'[r].skippedCount = run[r].skippedCount
            /\ run'[r].absent = run[r].absent + 1
            /\ run'[r].i = run[r].i + 1 /\ run'[r].pc = "loop"
            /\ run'[r].job = run[r].job
            /\ IF run'[r].threw = run[r].threw
               THEN run'[r].errorCount = run[r].errorCount + 1 /\ ~dialogClose'
               ELSE dialogClose'

C11_NoConfirmTally ==
    \A r \in Runs :
        (AtSummary(r) /\ run[r].ver = "v1.1" /\ JobSize(r) = 3
         /\ run[r].absent = 1 /\ run[r].threw = 0 /\ run[r].detached = 0)
            => Tally(r) = << 2, 1, 0 >>

C11_NoConfirmIsError ==
    [][C11_StepNoConfirmIsError /\ C11_NoConfirmTally']_vars

\* A v1.1 run of 3 rows has reached its summary; one dialog, not the last
\* row's, had no confirmation button and nothing else failed.
C11_Witness ==
    \E r \in Runs :
        /\ AtSummary(r) /\ run[r].ver = "v1.1" /\ JobSize(r) = 3
        /\ run[r].absent = 1 /\ run[r].threw = 0 /\ run[r].detached = 0
        /\ run[r].last = "ok" /\ run[r].errorCount = 1


\* C12: after every batch of observed mutations (every host step: the timer
\* is no mutation), if the h1 'Branches' is in the document then the
\* control is in the document once the observers have handled the batch;
\* batches that record only removed nodes included.
C12_StepBatchInjects ==
    (initTimer' = initTimer /\ h1Anchor') => Len(controls') >= 1

C12_InjectAfterEveryBatch == [][C12_StepBatchInjects]_vars


\* The job is the scan of the document as it is now: the attached rows that
\* expose a delete trigger, each once, in document order.
IsScanOfDocument(job) ==
    /\ \A k \in 1..Len(job) :
           /\ job[k][2] = tableGen
           /\ rowAtt[job[k][1]] /\ rowDel[job[k][1]]
    /\ \A k \in 1..(Len(job) - 1) : job[k][1] < job[k + 1][1]
    /\ \A p \in Rows : (rowAtt[p] /\ rowDel[p]) =>
           \E k \in 1..Len(job) : job[k][1] = p

\* Rows of the job that have had their turn.
Turns(r) == run[r].clicks + run[r].detached

\* C13: the job is captured at activation as the rows that expose a delete
\* trigger, in document order, and is fixed for the run; the rows take
\* their turn in that order, one turn each, and every trigger the run clicks
\* is that of the job row whose turn it is, so never that of a row the host
\* added or re-rendered after the scan.
C13_StepJobInOrder ==
    \A r \in Runs :
        /\ (Ended(r) /\ ~Ended(r)') =>
               /\ IsScanOfDocument(run'[r].job)
               /\ run'[r].i = 0 /\ run'[r].clicks = 0
               /\ run'[r].detached = 0
        /\ ~Ended(r) =>
               /\ run'[r].job = run[r].job
               /\ run'[r].i \in { run[r].i, run[r].i + 1 }
        /\ run'[r].clicks > run[r].clicks =>
               /\ run'[r].clicks = run[r].clicks + 1
               /\ run'[r].detached = run[r].detached
               /\ run'[r].target = run[r].job[run[r].i + 1]
               /\ run'[r].target[2] = tableGen
        /\ run'[r].detached > run[r].detached =>
               /\ run'[r].detached = run[r].detached + 1
               /\ run'[r].i = run[r].i + 1

C13_JobState ==
    \A r \in Runs :
        /\ run[r].i <= JobSize(r)
        /\ Turns(r) = run[r].i + (IF Suspended(r) THEN 1 ELSE 0)
        /\ AtSummary(r) => Turns(r) = JobSize(r)

C13_JobFixedInOrder == [][C13_StepJobInOrder /\ C13_JobState']_vars

\* The host re-rendered the table, adding a row, during a run whose job is
\* rows 1 and 3; the run clicked row 1 only and has reached its summary.
C13_Witness ==
    \E r \in Runs :
        /\ AtSummary(r) /\ JobSize(r) = 2
        /\ run[r].job[1][1] = 1 /\ run[r].job[2][1] = 3
        /\ run[r].clicks = 1 /\ run[r].detached = 1
        /\ run[r].target = run[r].job[1]
        /\ tableGen > run[r].job[1][2]
        /\ rowAtt[2] /\ rowDel[2]


\* The locator of the specification: the header region when it is there,
\* otherwise the parent of the h1 'Branches', otherwise not found.
locateByPriority(st, h) ==
    IF st THEN "headerRegion" ELSE IF h THEN "h1Parent" ELSE "notFound"

\* C14: the landmark lookup of each injector goes by priority: on every
\* document it returns the header-region match when there is one, otherwise
\* the parent of the h1 'Branches', otherwise not-found; and on not-found
\* the injector creates no control.
C14_LocatorPriority ==
    /\ containerV11(structAnchor) = locateByPriority(structAnchor, h1Anchor)
    /\ containerV021(h1Anchor) = locateByPriority(structAnchor, h1Anchor)
    /\ containerV11(structAnchor) = "notFound" =>
           injectDeleteAllButtonV11(controls, structAnchor) = controls
    /\ containerV021(h1Anchor) = "notFound" =>
           injectDeleteAllButtonV021(controls, h1Anchor) = controls

\* The same of the two script bodies taken together (v1.1's injector and
\* observer run before v0.2.1's): whenever a control is created it is put
\* where the priority says.
C14_StepCreatesAtPriority ==
    Len(controls') > Len(controls) =>
        containerOf(controls'[Len(controls')])
            = locateByPriority(structAnchor', h1Anchor')

C14_PageCreatesAtPriority == [][C14_StepCreatesAtPriority]_vars


\* Rows of the job that are resolved: those the loop has moved past, and
\* the row counted deleted whose settle delay is running.
Resolved(r) == run[r].i + (IF run[r].pc = "settle" THEN 1 ELSE 0)

CounterSum(r) ==
    run[r].deletedCount + run[r].errorCount + run[r].skippedCount

\* C15: processing one row increments exactly one of deletedCount,
\* errorCount, skippedCount by exactly 1 and leaves the other two alone;
\* the counters are 0 when a run starts and never decrease; at every point
\* of a run their sum is the number of job rows resolved so far.
C15_StepOneCounterPerRow ==
    \A r \in Runs :
        /\ (Ended(r) /\ ~Ended(r)') => Tally(r)' = << 0, 0, 0 >>
        /\ ~Ended(r) =>
               /\ run'[r].deletedCount >= run[r].deletedCount
               /\ run'[r].errorCount >= run[r].errorCount
               /\ run'[r].skippedCount >= run[r].skippedCount
               /\ CounterSum(r)' - CounterSum(r) = Resolved(r)' - Resolved(r)
               /\ CounterSum(r)' - CounterSum(r) \in { 0, 1 }

C15_SumIsRowsResolved ==
    \A r \in Runs : CounterSum(r) = Resolved(r)

C15_OneCounterPerRow ==
    [][C15_StepOneCounterPerRow /\ C15_SumIsRowsResolved']_vars


\* C16: no settle delay is taken after the last row of the job, in either
\* flow: a run is never in a settle delay at its last row; and a v0.2.1 run
\* of 3 rows with no failure ends with the tally {deleted: 3, error: 0,
\* skipped: 0} after exactly 2 settle delays.
C16_NoDelayAfterLastRow ==
    \A r \in Runs :
        /\ run[r].pc = "settle" => run[r].i < JobSize(r) - 1
        /\ (AtSummary(r) /\ run[r].ver = "v0.2.1" /\ JobSize(r) = 3
            /\ run[r].threw = 0 /\ run[r].detached = 0)
               => /\ Tally(r) = << 3, 0, 0 >>
                  /\ run[r].delays = 2
                  /\ run[r].waited = 2 * deleteDelayV021


\* C17: a delete trigger is never clicked on a row that is detached at the
\* moment of the click: the row clicked is attached in the state the click
\* is made in, the click is made in the step that checked it (from the loop,
\* with no timed wait in between), and the host changes the rows only while
\* no handler holds the thread.
C17_StepClicksAttachedRow ==
    /\ \A r \in Runs :
           run'[r].clicks > run[r].clicks =>
               /\ run[r].pc = "loop"
               /\ run'[r].target = run[r].job[run[r].i + 1]
               /\ rowAtt[run'[r].target[1]] /\ tableGen = run'[r].target[2]
               /\ rowAtt' = rowAtt /\ tableGen' = tableGen
    /\ (rowAtt' # rowAtt \/ tableGen' # tableGen) =>
           /\ ~Busy
           /\ run' = run

C17_NoClickOnDetachedRow == [][C17_StepClicksAttachedRow]_vars

\* The host removed row 2 during a wait of the run; the run skipped it and
\* clicked row 3.
C17_Witness ==
    \E r \in Runs :
        /\ JobSize(r) = 3 /\ run[r].clicks = 2 /\ run[r].detached = 1
        /\ run[r].target = run[r].job[3]
        /\ ~rowAtt[run[r].job[2][1]] /\ tableGen = run[r].job[2][2]


\* C18: in a v0.2.1 run deletedCount is the number of trigger clicks that
\* returned without throwing, at the summary and at every point before it:
\* the row is counted in the step its click returns, and nothing the host
\* does to the row afterwards changes the count.
C18_StepCountsReturnedClick ==
    \A r \in Runs :
        run[r].ver = "v0.2.1" =>
            /\ (run'[r].clicks > run[r].clicks
                /\ run'[r].threw = run[r].threw)
                   => run'[r].deletedCount = run[r].deletedCount + 1
            /\ (rowAtt' # rowAtt \/ tableGen' # tableGen)
                   => run'[r].deletedCount = run[r].deletedCount

C18_DeletedIsReturnedClicks ==
    \A r \in Runs :
        run[r].ver = "v0.2.1" =>
            run[r].deletedCount = run[r].clicks - run[r].threw

C18_DeletedCountsReturnedClicks ==
    [][C18_StepCountsReturnedClick /\ C18_DeletedIsReturnedClicks']_vars

\* A v0.2.1 run is at its summary with 2 rows counted deleted and 1 failed,
\* and the host has removed no row: the rows counted deleted are attached.
C18_Witness ==
    \E r \in Runs :
        /\ AtSummary(r) /\ run[r].ver = "v0.2.1"
        /\ run[r].deletedCount = 2 /\ run[r].threw = 1
        /\ \A k \in 1..JobSize(r) :
               rowAtt[run[r].job[k][1]] /\ tableGen = run[r].job[k][2]

====
